---- MODULE Spec2Model ----
(***************************************************************************)
(* Model of the billing application (billing/views.py, billing/forms.py):  *)
(* the period fetch that joins, sorts and caches the job rows and proposes *)
(* invoice numbers, and the four generation actions (register, invoices,   *)
(* summary, credit) that re-read the cached rows, filter them by the       *)
(* submitted inclusion flags, fold the adjustments and, for invoices,      *)
(* persist the next starting invoice number of the category.               *)
(*                                                                         *)
(* Text is modelled as a sequence of one-character strings, money as an    *)
(* integer number of 1/100 cent (so that sales * tax_rate is exact), a     *)
(* tax rate as an integer percentage.                                      *)
(***************************************************************************)
EXTENDS Integers, Sequences, FiniteSets, TLC

----------------------------------------------------------------------------
(* Text: Python str operations used by the numbering code.                 *)

DigitChars == <<"0", "1", "2", "3", "4", "5", "6", "7", "8", "9">>

Digits == {DigitChars[i] : i \in 1..Len(DigitChars)}

IsDigit(ch) == ch \in Digits

DigitVal(ch) == (CHOOSE i \in 1..Len(DigitChars) : DigitChars[i] = ch) - 1

IsAllDigits(s) == Len(s) > 0 /\ \A i \in 1..Len(s) : IsDigit(s[i])

\* s[:-k]  (empty when the text has at most k characters)
DropLast(s, k) == IF Len(s) <= k THEN <<>> ELSE SubSeq(s, 1, Len(s) - k)

\* s[-k:]  (the whole text when it has fewer than k characters)
TakeLast(s, k) == IF Len(s) <= k THEN s ELSE SubSeq(s, Len(s) - k + 1, Len(s))

\* int(s) for a text of decimal digits
RECURSIVE ToInt(_)
ToInt(s) ==
    IF Len(s) = 0 THEN 0
    ELSE 10 * ToInt(SubSeq(s, 1, Len(s) - 1)) + DigitVal(s[Len(s)])

\* str(n) for n >= 0
RECURSIVE IntToStr(_)
IntToStr(n) ==
    IF n < 10 THEN <<DigitChars[n + 1]>>
    ELSE IntToStr(n \div 10) \o <<DigitChars[(n % 10) + 1]>>

\* '{:0>w}'.format(s): pads on the left with "0" up to width w, never cuts
RECURSIVE PadLeft(_, _)
PadLeft(s, w) == IF Len(s) >= w THEN s ELSE PadLeft(<<"0">> \o s, w)

\* re.compile(r'\d+').findall(s): the maximal runs of digits, left to right
RECURSIVE FindAllDigits(_)
FindAllDigits(s) ==
    IF Len(s) = 0 THEN <<>>
    ELSE IF ~IsDigit(s[1]) THEN FindAllDigits(Tail(s))
    ELSE LET n == CHOOSE k \in 1..Len(s) :
                      /\ \A i \in 1..k : IsDigit(s[i])
                      /\ (k = Len(s) \/ ~IsDigit(s[k + 1]))
         IN  <<SubSeq(s, 1, n)>> \o FindAllDigits(SubSeq(s, n + 1, Len(s)))

\* a < b for Python str values made of digits (code point order, a proper
\* prefix is smaller)
RECURSIVE StrLess(_, _)
StrLess(a, b) ==
    IF Len(b) = 0 THEN FALSE
    ELSE IF Len(a) = 0 THEN TRUE
    ELSE IF a[1] # b[1] THEN DigitVal(a[1]) < DigitVal(b[1])
    ELSE StrLess(Tail(a), Tail(b))

\* max(list) of a non-empty list of str
StrMax(list) ==
    LET i == CHOOSE i \in 1..Len(list) :
                 \A j \in 1..Len(list) : ~StrLess(list[i], list[j])
    IN  list[i]

\* concatenation of a sequence of sequences
RECURSIVE Flatten(_)
Flatten(ss) == IF Len(ss) = 0 THEN <<>> ELSE Head(ss) \o Flatten(Tail(ss))

RECURSIVE SumSeq(_)
SumSeq(s) == IF Len(s) = 0 THEN 0 ELSE Head(s) + SumSeq(Tail(s))

----------------------------------------------------------------------------
(* The two source databases, as the queries of the view see them.          *)

\* NULL of a nullable column (NaN in the data frame)
NaN == -1

\* the "1" of (1 + tax_rate): tax rates are in 1/10000, so that a sales
\* amount in cents times a rate is an amount in 1/1000000 dollar
RateOne == 10000

\* InvoiceCategory rows: primary keys, and the number field of each row
CatIds == {1, 2}

CatNumber(pk) == pk

\* billing periods the operator can select ("YYYY-MM")
Periods == {1, 2}

\* macola_accounts (MacolaAcct, primary key account_No) with the invoice
\* category each account is classified under
MacolaAccts ==
    { [acct |-> 11, provider |-> 5,   tax_rate |-> 825, cat |-> 1],
      [acct |-> 12, provider |-> NaN, tax_rate |-> NaN, cat |-> 1],
      [acct |-> 13, provider |-> 5,   tax_rate |-> 0,   cat |-> 1],
      [acct |-> 21, provider |-> NaN, tax_rate |-> 0,   cat |-> 2] }

\* BillToProvider primary keys
ProviderIds == {5}

\* the job rows of the production database with job_net > 0, per period, in
\* the order the query returns them; account 99 is in no reference row
VistarJobs(period) ==
    IF period = 1
    THEN << [job_id |-> 101, acct |-> 11, ship_date |-> 2, patient_name |-> 1, sales |-> 5000],
            [job_id |-> 102, acct |-> 21, ship_date |-> 3, patient_name |-> 1, sales |-> 1500],
            [job_id |-> 103, acct |-> 12, ship_date |-> 1, patient_name |-> 1, sales |-> 2000],
            [job_id |-> 104, acct |-> 11, ship_date |-> 1, patient_name |-> 2, sales |-> 10000],
            [job_id |-> 105, acct |-> 99, ship_date |-> 1, patient_name |-> 3, sales |-> 700],
            [job_id |-> 106, acct |-> 13, ship_date |-> 2, patient_name |-> 2, sales |-> 800] >>
    ELSE << [job_id |-> 201, acct |-> 13, ship_date |-> 2, patient_name |-> 1, sales |-> 3000],
            [job_id |-> 202, acct |-> 11, ship_date |-> 1, patient_name |-> 1, sales |-> 1000],
            [job_id |-> 203, acct |-> 12, ship_date |-> 1, patient_name |-> 2, sales |-> 2500],
            [job_id |-> 204, acct |-> 12, ship_date |-> 1, patient_name |-> 1, sales |-> 4000] >>

\* get_vistar_billing_df: the rows of the selected period
get_vistar_billing_df(clean_data) == VistarJobs(clean_data.end_period)

\* get_macola_df: acct, provider, tax_rate of every reference account
get_macola_df == MacolaAccts

----------------------------------------------------------------------------
(* Aggregation: join, fill, derive, sort (get_billing_data, not cached).   *)

\* Series.fillna(0)
fillna(v) == IF v = NaN THEN 0 ELSE v

\* pd.merge(jobs, accounts, on='acct'): inner join, left order kept; then
\* fillna of tax_rate and provider, and the derived tax and total columns
RECURSIVE merge(_, _)
merge(jobs, accts) ==
    IF Len(jobs) = 0 THEN <<>>
    ELSE LET j == Head(jobs)
             m == {a \in accts : a.acct = j.acct}
         IN  (IF m = {} THEN <<>>
              ELSE LET a == CHOOSE a \in m : TRUE
                       rate == fillna(a.tax_rate)
                   IN  << [job_id |-> j.job_id, acct |-> j.acct,
                           ship_date |-> j.ship_date,
                           patient_name |-> j.patient_name,
                           sales |-> j.sales,
                           cat |-> a.cat,
                           provider |-> fillna(a.provider),
                           tax_rate |-> rate,
                           tax |-> j.sales * rate,
                           total |-> (RateOne + rate) * j.sales] >>)
             \o merge(Tail(jobs), accts)

\* the sort key of sort_values(by=['cat','provider','acct','ship_date',
\* 'patient_name'])
SortKey(r) == <<r.cat, r.provider, r.acct, r.ship_date, r.patient_name>>

RECURSIVE KeyLess(_, _)
KeyLess(a, b) ==
    IF Len(a) = 0 THEN FALSE
    ELSE IF a[1] # b[1] THEN a[1] < b[1]
    ELSE KeyLess(Tail(a), Tail(b))

\* insertion of r after every row that is not greater (keeps ties in order)
RECURSIVE InsertSorted(_, _)
InsertSorted(r, rows) ==
    IF Len(rows) = 0 THEN <<r>>
    ELSE IF KeyLess(SortKey(r), SortKey(Head(rows))) THEN <<r>> \o rows
    ELSE <<Head(rows)>> \o InsertSorted(r, Tail(rows))

\* DataFrame.sort_values on several columns: a stable ascending sort
RECURSIVE sort_values(_)
sort_values(rows) ==
    IF Len(rows) = 0 THEN <<>>
    ELSE InsertSorted(rows[Len(rows)], sort_values(SubSeq(rows, 1, Len(rows) - 1)))

\* rows[mask] for a boolean list as long as the frame: the rows whose mask
\* entry is true, in order
RECURSIVE MaskRows(_, _)
MaskRows(rows, mask) ==
    IF Len(rows) = 0 THEN <<>>
    ELSE (IF Head(mask) THEN <<Head(rows)>> ELSE <<>>)
         \o MaskRows(Tail(rows), Tail(mask))

\* Series.drop_duplicates(): the distinct values in order of first appearance
RECURSIVE drop_duplicates(_)
drop_duplicates(vals) ==
    IF Len(vals) = 0 THEN <<>>
    ELSE LET init == drop_duplicates(SubSeq(vals, 1, Len(vals) - 1))
             v == vals[Len(vals)]
         IN  IF \E i \in 1..Len(init) : init[i] = v THEN init
             ELSE Append(init, v)

Column(rows, name) == [i \in 1..Len(rows) |-> rows[i][name]]

\* the keys of DataFrame.groupby(name), ascending
RECURSIVE SortedSeq(_)
SortedSeq(S) ==
    IF S = {} THEN <<>>
    ELSE LET m == CHOOSE x \in S : \A y \in S : x <= y
         IN  <<m>> \o SortedSeq(S \ {m})

GroupKeys(rows, name) == SortedSeq({rows[i][name] : i \in 1..Len(rows)})

\* one group of DataFrame.groupby(name): the rows with that key, in order
Group(rows, name, key) == SelectSeq(rows, LAMBDA r : r[name] = key)

----------------------------------------------------------------------------
(* Forms (billing/forms.py) and their validation.                          *)

\* InvoicePeriodForm: every start_<pk> field is a CharField of exactly 8
\* characters
StartMinLength == 8

StartMaxLength == 8

InvoicePeriodForm_is_valid(starts) ==
    \A c \in CatIds :
        Len(starts[c]) >= StartMinLength /\ Len(starts[c]) <= StartMaxLength

\* InvoiceNumberingForm.invoice_no: optional, 8 to 50 characters when given
InvoiceNoMinLength == 8

InvoiceNoMaxLength == 50

InvoiceNumberingForm_is_valid(invoice_no) ==
    \/ Len(invoice_no) = 0
    \/ Len(invoice_no) >= InvoiceNoMinLength /\ Len(invoice_no) <= InvoiceNoMaxLength

InvoiceFormset_is_valid(invoice_nos) ==
    \A i \in 1..Len(invoice_nos) : InvoiceNumberingForm_is_valid(invoice_nos[i])

\* AdjustmentForm: kind is one of the two choices, ref and des are optional,
\* amount is a required decimal with two places and no bound on its sign.
\* A submitted form is [changed, kind, has_amount, amount]: an extra form the
\* operator left untouched is valid and cleans to an empty dict.
Kinds == {"Credit", "Debit"}

AdjustmentForm_is_valid(f) == ~f.changed \/ f.has_amount

AdjustmentFormset_is_valid(fs) ==
    \A i \in 1..Len(fs) : AdjustmentForm_is_valid(fs[i])

\* kind.map({'Credit': -1, 'Debit': 1})
KindSign(kind) == IF kind = "Credit" THEN -1 ELSE 1

\* (variant for C9: the sign of the kind is dropped)
SignedAmount_Unsigned(kind, amount) == amount

\* the amount column after validate_form: amount * sign of the kind
SignedAmount(kind, amount) == amount * KindSign(kind)

\* validate_form on an AdjustmentFormset: the bound formset itself when it is
\* invalid, None when no form was filled, else the rows with signed amounts
validate_adjustments(fs) ==
    IF ~AdjustmentFormset_is_valid(fs) THEN [tag |-> "form", rows |-> <<>>]
    ELSE LET filtered == SelectSeq(fs, LAMBDA f : f.changed)
         IN  IF Len(filtered) = 0 THEN [tag |-> "none", rows |-> <<>>]
             ELSE [tag |-> "frame",
                   rows |-> [i \in 1..Len(filtered) |->
                               [kind |-> filtered[i].kind,
                                amount |-> SignedAmount(filtered[i].kind,
                                                        filtered[i].amount)]]]

\* validate_form on a formset of one optional field (invoice_no, include):
\* the bound formset when invalid, None when it has no form, else the list
validate_list(valid, values) ==
    IF ~valid THEN [tag |-> "form", list |-> <<>>]
    ELSE IF Len(values) = 0 THEN [tag |-> "none", list |-> <<>>]
    ELSE [tag |-> "series", list |-> values]

----------------------------------------------------------------------------
(* Invoice numbering.                                                      *)

\* '{}{:0>4}'.format(prefix, n)
SequenceWidth == 4

fmt(prefix, n) == prefix \o PadLeft(IntToStr(n), SequenceWidth)

\* int(invoice_start[-4:]) raises ValueError unless the text is a number
SequenceIsInt(start) == IsAllDigits(TakeLast(start, SequenceWidth))

\* (variant for C6: the range starts one after the submitted sequence)
invoice_no_range_FromNext(start, n) ==
    [i \in 1..n |-> fmt(DropLast(start, SequenceWidth),
                        ToInt(TakeLast(start, SequenceWidth)) + i)]

\* get_billing_data: the codes proposed for the n distinct accounts of a
\* category from the submitted starting code
invoice_no_range(start, n) ==
    LET prefix == DropLast(start, SequenceWidth)
        sequence == ToInt(TakeLast(start, SequenceWidth))
    IN  [i \in 1..n |-> fmt(prefix, sequence + i - 1)]

\* invoices: every digit run of every submitted invoice number, in order
invoice_seq(invoice_no_values) ==
    Flatten([i \in 1..Len(invoice_no_values) |-> FindAllDigits(invoice_no_values[i])])

\* invoices: the next starting number from the largest digit run
next_invoice_start(invoice_no_values) ==
    LET last_invoice_no == StrMax(invoice_seq(invoice_no_values))
    IN  fmt(DropLast(last_invoice_no, SequenceWidth),
            ToInt(TakeLast(last_invoice_no, SequenceWidth)) + 1)

----------------------------------------------------------------------------
(* State.                                                                  *)

VARIABLES
    invoice_start,  \* InvoiceCategory.invoice_start of every category row
    ici_exists,     \* whether the MacolaAcct row 'ici' exists
    snapshot,       \* the cache file billing_data.h5 (one path for everyone)
    page,           \* per operator session: the review page it was served
    commits,        \* number of InvoiceCategory.save() calls so far
    req,            \* the request being handled
    resp,           \* the response to it
    calc            \* one application of a numbering or adjustment function

vars == <<invoice_start, ici_exists, snapshot, page, commits, req, resp, calc>>

\* operator sessions (browsers) posting to the one view
Sessions == {1, 2}

\* at most this many saves of invoice_start are explored
MaxCommits == 2

\* the persisted starting numbers at the start: well-formed 8-digit codes
InitialStart(c) ==
    IF c = 1 THEN <<"2", "0", "0", "1", "5", "0", "0", "1">>
    ELSE <<"3", "0", "0", "2", "9", "9", "9", "9">>

\* what an operator may type over the initial value of a start_<pk> field
TypedStarts ==
    { <<"R", "T", "0", "1", "5", "0", "0", "1">>,
      <<"2", "0", "0", "1", "5", "0", "0", "A">>,
      <<"2", "0", "0", "1">> }

\* the categories whose start field the operators edit
EditedCats == {1}

NoPage ==
    [shown |-> FALSE, period |-> 0, starts |-> [c \in CatIds |-> <<>>],
     cats |-> [c \in CatIds |-> <<>>]]

NoRequest == [kind |-> "none"]



\* a response: its status (ok, invalid: a page with form errors, error: an
\* unhandled exception), the action that ran, the session whose fetch wrote
\* the cached rows it read, the rows it worked on and what it produced
Response(status, action, cached_from, billing_data, table, docs, saved, value) ==
    [status |-> status, action |-> action, cached_from |-> cached_from,
     billing_data |-> billing_data, table |-> table, docs |-> docs,
     saved |-> saved, invoice_start |-> value]

Failed(status, action) == Response(status, action, 0, <<>>, <<>>, <<>>, FALSE, <<>>)

NoCalc == [fn |-> "none"]

\* the database and the server before the first request
Installed ==
    /\ invoice_start = [c \in CatIds |-> InitialStart(c)]
    /\ snapshot = [exists |-> FALSE, rows |-> <<>>, writer |-> 0, period |-> 0]
    /\ page = [s \in Sessions |-> NoPage]
    /\ commits = 0
    /\ req = NoRequest
    /\ resp = [status |-> "none"]

Init ==
    /\ Installed
    /\ ici_exists \in BOOLEAN
    /\ calc = NoCalc

----------------------------------------------------------------------------
(* The period request: InvoicePeriodForm, form_valid, get_billing_data.    *)

\* get_object(queryset, pk): the row, or None; a queryset is modelled by the
\* set of its primary keys, is_queryset is false for a value that is not a
\* queryset and has no filter method
QuerySet(pks) == [is_queryset |-> TRUE, pks |-> pks]

get_object_raises(queryset) == ~queryset.is_queryset

get_object_found(queryset, pk) == pk \in queryset.pks

\* the account groups of one category frame in the order of the nested loops
\* groupby('provider') then groupby('acct')
AcctGroups(cat_df) ==
    LET provs == GroupKeys(cat_df, "provider")
    IN  Flatten([p \in 1..Len(provs) |->
            LET provider_df == Group(cat_df, "provider", provs[p])
                accts == GroupKeys(provider_df, "acct")
            IN  [a \in 1..Len(accts) |->
                    [provider |-> provs[p], acct |-> accts[a],
                     acct_df |-> Group(provider_df, "acct", accts[a])]]])

\* the forms get_billing_data builds for one category: per account group the
\* invoice number form (initial: the proposed code) and one include form per
\* job row
CategoryForms(cat_df, start) ==
    LET n == Len(drop_duplicates(Column(cat_df, "acct")))
        invoice_no_forms == invoice_no_range(start, n)
        groups == AcctGroups(cat_df)
    IN  [i \in 1..Len(groups) |->
            [acct |-> groups[i].acct,
             invoice_no |-> invoice_no_forms[i],
             jobs |-> Column(groups[i].acct_df, "job_id")]]

\* get_billing_data raises: a category of the data has no row, its start
\* field is missing from the form, the sequence part is no number, or there
\* are more account groups than invoice number forms
get_billing_data_raises(merged, starts) ==
    \E c \in {merged[i].cat : i \in 1..Len(merged)} :
        \/ ~get_object_found(QuerySet(CatIds), c)
        \/ CatNumber(c) \notin DOMAIN starts
        \/ ~SequenceIsInt(starts[CatNumber(c)])
        \/ LET cat_df == Group(merged, "cat", c)
           IN  Len(AcctGroups(cat_df)) > Len(drop_duplicates(Column(cat_df, "acct")))

get_billing_data(merged, clean_data) ==
    [shown |-> TRUE, period |-> clean_data.end_period, starts |-> clean_data.starts,
     cats |-> [c \in CatIds |->
                 LET cat_df == Group(merged, "cat", c)
                 IN  IF Len(cat_df) = 0 THEN <<>>
                     ELSE CategoryForms(cat_df, clean_data.starts[CatNumber(c)])]]

\* (variant for C15: the last job row of the query is lost in the join)
merged_frame_LastJobLost(clean_data) ==
    LET jobs == get_vistar_billing_df(clean_data)
    IN  sort_values(merge(SubSeq(jobs, 1, Len(jobs) - 1), get_macola_df))

\* the joined, derived and sorted frame written to the cache
merged_frame(clean_data) ==
    sort_values(merge(get_vistar_billing_df(clean_data), get_macola_df))

\* what the operators submit in the start fields
StartInputs ==
    { st \in [CatIds -> {invoice_start[c] : c \in CatIds} \cup TypedStarts] :
        \A c \in CatIds :
            \/ st[c] = invoice_start[c]
            \/ c \in EditedCats /\ st[c] \in TypedStarts }

\* (variant for C16: form_valid goes on without looking for the 'ici' row)
Fetch_WithoutIciCheck(s, period, starts) ==
    LET clean_data == [end_period |-> period, starts |-> starts]
        merged == merged_frame(clean_data)
    IN  /\ req' = [kind |-> "fetch", session |-> s, period |-> period,
                   starts |-> starts]
        /\ UNCHANGED <<invoice_start, ici_exists, commits, calc>>
        /\ IF ~InvoicePeriodForm_is_valid(starts)
           THEN /\ resp' = Failed("invalid", "fetch")
                /\ UNCHANGED <<snapshot, page>>
           ELSE /\ snapshot' = [exists |-> TRUE, rows |-> merged, writer |-> s,
                                period |-> period]
                /\ IF get_billing_data_raises(merged, starts)
                   THEN /\ resp' = Failed("error", "fetch")
                        /\ UNCHANGED page
                   ELSE /\ resp' = Response("ok", "fetch", s, merged, <<>>, <<>>, FALSE, <<>>)
                        /\ page' = [page EXCEPT ![s] = get_billing_data(merged, clean_data)]

\* POST without a submit key starting with '_': FormView.post, form_valid
Fetch(s, period, starts) ==
    LET clean_data == [end_period |-> period, starts |-> starts]
        merged == merged_frame(clean_data)
    IN  /\ req' = [kind |-> "fetch", session |-> s, period |-> period,
                   starts |-> starts]
        /\ UNCHANGED <<invoice_start, ici_exists, commits, calc>>
        /\ IF ~InvoicePeriodForm_is_valid(starts) \/ ~ici_exists
           THEN /\ resp' = Failed("invalid", "fetch")
                /\ UNCHANGED <<snapshot, page>>
           ELSE /\ snapshot' = [exists |-> TRUE, rows |-> merged, writer |-> s,
                                period |-> period]
                /\ IF get_billing_data_raises(merged, starts)
                   THEN /\ resp' = Failed("error", "fetch")
                        /\ UNCHANGED page
                   ELSE /\ resp' = Response("ok", "fetch", s, merged, <<>>, <<>>, FALSE, <<>>)
                        /\ page' = [page EXCEPT ![s] = get_billing_data(merged, clean_data)]

----------------------------------------------------------------------------
(* The generation request: post, then register, invoices, summary, credit. *)

Actions == {"register", "invoices", "summary", "credit"}

\* (variant for C12: the total leaves out the tax)
set_totals_SalesOnly(data_df) ==
    LET sales_sum == SumSeq(Column(data_df, "sales")) * RateOne
        tax_sum == SumSeq(Column(data_df, "tax"))
    IN  [sales |-> sales_sum, tax |-> tax_sum, total |-> sales_sum]

\* set_totals: sales, tax and total of a frame, in 1/1000000 dollar
set_totals(data_df) ==
    LET sales_sum == SumSeq(Column(data_df, "sales")) * RateOne
        tax_sum == SumSeq(Column(data_df, "tax"))
    IN  [sales |-> sales_sum, tax |-> tax_sum, total |-> sales_sum + tax_sum]

\* (variant for C11: the adjustments of an account are left out)
adj_sum_Ignored(adj_df) == 0

\* adj_df.amount.sum() of a validated adjustment formset, 0 when it is None
\* (in cents)
adj_sum(adj_df) ==
    IF adj_df.tag = "frame" THEN SumSeq(Column(adj_df.rows, "amount")) ELSE 0

\* (variant for C23: the accounts are paired in ascending account number)
PairedAccts_ByNumber(cat_df, invoice_no_list) ==
    LET accts == GroupKeys(cat_df, "acct")
        k == IF Len(accts) < Len(invoice_no_list) THEN Len(accts)
             ELSE Len(invoice_no_list)
    IN  SubSeq(accts, 1, k)

\* post, lines 334-342: the accounts of the cached category frame paired
\* with the submitted invoice numbers (zip stops at the shorter list)
PairedAccts(cat_df, invoice_no_list) ==
    LET accts == drop_duplicates(Column(cat_df, "acct"))
        k == IF Len(accts) < Len(invoice_no_list) THEN Len(accts)
             ELSE Len(invoice_no_list)
    IN  SubSeq(accts, 1, k)

\* post raises while it reads the formsets of the paired accounts: an
\* include formset that is missing from the POST data, invalid or empty has
\* no tolist()
include_raises(r, accts) ==
    \E i \in 1..Len(accts) :
        \/ accts[i] \notin DOMAIN r.include
        \/ validate_list(r.include[accts[i]].valid,
                         r.include[accts[i]].flags).tag # "series"

\* (variant for C13: every job is kept whatever its flag)
include_job_mask_AllKept(r, accts) ==
    Flatten([i \in 1..Len(accts) |->
                [k \in 1..Len(r.include[accts[i]].flags) |-> TRUE]])

include_job_mask(r, accts) ==
    Flatten([i \in 1..Len(accts) |-> r.include[accts[i]].flags])

\* adjustments[acct_no]: the validated frame, None for an unfilled formset
\* and None as well for a formset that failed validation
adjustments_of(r, accts) ==
    [a \in {accts[i] : i \in 1..Len(accts)} |->
        LET v == validate_adjustments(r.adj[a])
        IN  IF v.tag = "frame" THEN v ELSE [tag |-> "none", rows |-> <<>>]]

invoice_nos_of(accts, invoice_no_list) ==
    [a \in {accts[i] : i \in 1..Len(accts)} |->
        invoice_no_list[CHOOSE i \in 1..Len(accts) : accts[i] = a]]

\* (variant for C14: only the first account's value is read)
dict_values_FirstOnly(accts, d) == [i \in 1..(IF Len(accts) > 0 THEN 1 ELSE 0) |-> d[accts[i]]]

\* the dict values in insertion order
dict_values(accts, d) == [i \in 1..Len(accts) |-> d[accts[i]]]

\* register, lines 367-418: one row per account of the filtered frame whose
\* invoice number is not blank, a subtotal row per provider that has a
\* BillToProvider row, and the totals row
register_table(billing_data, adjustments, invoice_nos) ==
    LET included_accts == {a \in DOMAIN invoice_nos : Len(invoice_nos[a]) > 0}
        provs == GroupKeys(billing_data, "provider")
        prov_rows(provider_id) ==
            LET provider_df == Group(billing_data, "provider", provider_id)
                accts == GroupKeys(provider_df, "acct")
                inc == SelectSeq(accts, LAMBDA a : a \in included_accts)
                acct_rows ==
                    [i \in 1..Len(inc) |->
                        LET t == set_totals(Group(provider_df, "acct", inc[i]))
                            acct_adjs == adj_sum(adjustments[inc[i]])
                        IN  [row |-> "acct", id |-> inc[i],
                             invoice_no |-> invoice_nos[inc[i]],
                             sales |-> t.sales, tax |-> t.tax,
                             adjs |-> acct_adjs,
                             total |-> t.total + acct_adjs * RateOne]]
                prov_adj_sum == SumSeq(Column(acct_rows, "adjs"))
                included_prov_acct_df ==
                    SelectSeq(provider_df, LAMBDA x : x.acct \in included_accts)
                pt == set_totals(included_prov_acct_df)
                ptotal == SumSeq(Column(included_prov_acct_df, "total"))
            IN  IF get_object_found(QuerySet(ProviderIds), provider_id)
                THEN Append(acct_rows,
                            [row |-> "provider", id |-> provider_id,
                             invoice_no |-> <<>>,
                             sales |-> pt.sales, tax |-> pt.tax,
                             adjs |-> prov_adj_sum,
                             total |-> ptotal + prov_adj_sum * RateOne])
                ELSE acct_rows
        body == Flatten([p \in 1..Len(provs) |-> prov_rows(provs[p])])
        prov_adj_sums ==
            [p \in 1..Len(provs) |->
                SumSeq(Column(SelectSeq(prov_rows(provs[p]),
                                        LAMBDA x : x.row = "acct"), "adjs"))]
        total_adj_sum == SumSeq(prov_adj_sums)
        tt == set_totals(SelectSeq(billing_data, LAMBDA x : x.acct \in included_accts))
    IN  Append(body,
               [row |-> "total", id |-> 0, invoice_no |-> <<>>,
                sales |-> tt.sales, tax |-> tt.tax, adjs |-> total_adj_sum,
                total |-> tt.sales + tt.tax + total_adj_sum * RateOne])

\* register raises when an account of the filtered frame has no entry in
\* the adjustments dict
register_raises(billing_data, adjustments) ==
    \E i \in 1..Len(billing_data) : billing_data[i].acct \notin DOMAIN adjustments

\* invoices, line 450: all_providers and all_accounts are both bound to the
\* pair returned by attrgetter, which is no queryset
invoices_all_providers == [is_queryset |-> FALSE, pks |-> ProviderIds]

\* invoices, lines 529-606: the per-account documents; the provider lookup
\* at the head of the outer loop raises when the value has no filter method
invoice_docs_raise(billing_data, invoice_nos) ==
    \E i \in 1..Len(billing_data) :
        \/ get_object_raises(invoices_all_providers)
        \/ billing_data[i].acct \notin DOMAIN invoice_nos

invoice_docs(billing_data, adjustments, invoice_nos) ==
    LET groups == AcctGroups(billing_data)
        billed == SelectSeq(groups,
                      LAMBDA g : Len(FindAllDigits(invoice_nos[g.acct])) > 0)
    IN  [i \in 1..Len(billed) |->
            [acct |-> billed[i].acct,
             invoice_no |-> FindAllDigits(invoice_nos[billed[i].acct])[1],
             jobs |-> Column(billed[i].acct_df, "job_id"),
             total |-> set_totals(billed[i].acct_df).total
                       + adj_sum(adjustments[billed[i].acct]) * RateOne]]

\* the dict key 'acct_no' written as a string literal in summary and credit:
\* it is the number of no account
AcctNoLiteral == 0

\* summary, lines 677-753: raises at a provider id without BillToProvider
\* row (all_providers.get) and at the literal key of the two dicts
summary_raises(billing_data, adjustments, invoice_nos) ==
    \E i \in 1..Len(billing_data) :
        \/ ~get_object_found(QuerySet(ProviderIds), billing_data[i].provider)
        \/ AcctNoLiteral \notin DOMAIN invoice_nos
        \/ AcctNoLiteral \notin DOMAIN adjustments

\* credit, line 765: the literal key of the two dicts
credit_raises(adjustments, invoice_nos, ici) ==
    \/ AcctNoLiteral \notin DOMAIN adjustments
    \/ AcctNoLiteral \notin DOMAIN invoice_nos
    \/ ~ici

\* post for a request r with a submit key '_<action>': the response, with
\* the value saved to the category's invoice_start when saved is true
post(r, cache, ici) ==
    LET inv == validate_list(InvoiceFormset_is_valid(r.invoice_nos), r.invoice_nos)
        cat_df == Group(cache.rows, "cat", r.cat_id)
        accts == PairedAccts(cat_df, inv.list)
        mask == include_job_mask(r, accts)
        billing_data == MaskRows(cat_df, mask)
        adjustments == adjustments_of(r, accts)
        invoice_nos == invoice_nos_of(accts, inv.list)
        done(table, docs, saved, value) ==
            Response("ok", r.action, cache.writer, billing_data, table, docs,
                     saved, value)
    IN  IF inv.tag # "series" THEN Failed("error", "none")
        ELSE IF ~r.savepath_ok THEN Failed("invalid", "none")
        ELSE IF ~cache.exists THEN Failed("error", "none")
        ELSE IF include_raises(r, accts) THEN Failed("error", "none")
        ELSE IF Len(mask) # 0 /\ Len(mask) # Len(cat_df) THEN Failed("error", "none")
        ELSE IF Len(mask) = 0 THEN Failed("error", r.action)
        ELSE IF r.action = "register"
        THEN IF register_raises(billing_data, adjustments)
             THEN Failed("error", r.action)
             ELSE done(register_table(billing_data, adjustments, invoice_nos),
                       <<>>, FALSE, <<>>)
        ELSE IF r.action = "invoices"
        THEN IF ~ici \/ invoice_docs_raise(billing_data, invoice_nos)
                \/ Len(invoice_seq(dict_values(accts, invoice_nos))) = 0
             THEN Failed("error", r.action)
             ELSE done(<<>>, invoice_docs(billing_data, adjustments, invoice_nos),
                       TRUE, next_invoice_start(dict_values(accts, invoice_nos)))
        ELSE IF r.action = "summary"
        THEN IF summary_raises(billing_data, adjustments, invoice_nos)
             THEN Failed("error", r.action)
             ELSE done(<<>>, <<>>, FALSE, <<>>)
        ELSE IF credit_raises(adjustments, invoice_nos, ici)
             THEN Failed("error", r.action)
             ELSE done(<<>>, <<>>, FALSE, <<>>)

\* (variant for C27: a value that is already the persisted one is stepped on)
save_invoice_start_Advancing(starts, cat_id, value) ==
    [starts EXCEPT ![cat_id] = IF value = starts[cat_id]
                               THEN next_invoice_start(<<value>>)
                               ELSE value]

\* (variant for C3: the save writes the value to every category row)
save_invoice_start_AllRows(starts, cat_id, value) == [c \in CatIds |-> value]

\* category_obj.invoice_start = value; category_obj.save()
save_invoice_start(starts, cat_id, value) == [starts EXCEPT ![cat_id] = value]

\* ---- what the operators submit with a generation form ----

BlankForm == [changed |-> FALSE, kind |-> "Credit", has_amount |-> FALSE, amount |-> 0]

AdjForm(kind, amount) ==
    [changed |-> TRUE, kind |-> kind, has_amount |-> TRUE, amount |-> amount]

\* a form with a reference typed in and the amount left empty
IncompleteForm == [changed |-> TRUE, kind |-> "Credit", has_amount |-> FALSE, amount |-> 0]

\* the adjustment formsets an operator fills in for an account (in cents)
FilledAdjustments ==
    { <<AdjForm("Credit", 2000), AdjForm("Debit", 500)>>,
      <<IncompleteForm>> }

\* a text shorter than the invoice_no field allows
ShortInvoiceNo == <<"7", "7">>

\* the invoice number formsets an operator submits for the forms shown:
\* the proposed codes, the first or all of them blanked, the last one cut
InvoiceNoInputs(forms) ==
    LET proposed == Column(forms, "invoice_no")
        n == Len(forms)
    IN  { proposed,
          [i \in 1..n |-> IF i = 1 THEN <<>> ELSE proposed[i]],
          [i \in 1..n |-> <<>>],
          [i \in 1..n |-> IF i = n THEN ShortInvoiceNo ELSE proposed[i]] }

FormAccts(forms) == {forms[i].acct : i \in 1..Len(forms)}

FormOf(forms, a) == forms[CHOOSE i \in 1..Len(forms) : forms[i].acct = a]

\* the include formsets: every job kept, every job excluded, or the first
\* job of each account excluded
IncludeInputs(forms) ==
    { [a \in FormAccts(forms) |->
          [valid |-> TRUE,
           flags |-> [i \in 1..Len(FormOf(forms, a).jobs) |->
                         IF pattern = "all" THEN TRUE
                         ELSE IF pattern = "none" THEN FALSE
                         ELSE i # 1]]] :
        pattern \in {"all", "none", "rest"} }

AllIncluded(forms) ==
    [a \in FormAccts(forms) |->
        [valid |-> TRUE, flags |-> [i \in 1..Len(FormOf(forms, a).jobs) |-> TRUE]]]

\* an include formset whose management form was tampered with
TamperedInclude(forms) ==
    [a \in FormAccts(forms) |->
        [valid |-> FALSE, flags |-> [i \in 1..Len(FormOf(forms, a).jobs) |-> TRUE]]]

\* the adjustment formsets: untouched, or filled in for the first account
NoAdjustments(forms) == [a \in FormAccts(forms) |-> <<BlankForm>>]

AdjInputs(forms) ==
    {NoAdjustments(forms)} \cup
    { [NoAdjustments(forms) EXCEPT ![forms[1].acct] = fs] : fs \in FilledAdjustments }

GenRequest(s, c, action, invoice_nos, savepath_ok, include, adj) ==
    [kind |-> "generate", session |-> s, cat_id |-> c, action |-> action,
     invoice_nos |-> invoice_nos, savepath_ok |-> savepath_ok,
     include |-> include, adj |-> adj]

\* the generation requests session s can submit from the page it was served
GenInputs(s) ==
    UNION { LET forms == page[s].cats[c] IN
            { GenRequest(s, c, action, inv, TRUE, inc, adj) :
                action \in Actions, inv \in InvoiceNoInputs(forms),
                inc \in IncludeInputs(forms), adj \in AdjInputs(forms) }
            \cup
            { GenRequest(s, c, action, Column(forms, "invoice_no"), FALSE,
                         AllIncluded(forms), NoAdjustments(forms)) :
                action \in Actions }
            \cup
            { GenRequest(s, c, action, Column(forms, "invoice_no"), TRUE,
                         TamperedInclude(forms), NoAdjustments(forms)) :
                action \in Actions }
          : c \in {c \in CatIds : Len(page[s].cats[c]) > 0} }

\* (variant for C18: invoice_start is saved before the documents are built)
Generate_SavesBeforeBuilding(r) ==
    LET out == post(r, snapshot, ici_exists)
        early == /\ r.action = "invoices"
                 /\ out.status # "invalid"
                 /\ Len(invoice_seq(r.invoice_nos)) > 0
    IN  /\ r.action = "invoices" => commits < MaxCommits
        /\ req' = r
        /\ resp' = out
        /\ invoice_start' = IF early
                            THEN save_invoice_start(invoice_start, r.cat_id,
                                                    next_invoice_start(r.invoice_nos))
                            ELSE invoice_start
        /\ commits' = IF early THEN commits + 1 ELSE commits
        /\ UNCHANGED <<ici_exists, snapshot, page, calc>>

\* (variant for C20: the cache file is removed once it has been read)
Generate_ConsumesSnapshot(r) ==
    LET out == post(r, snapshot, ici_exists)
    IN  /\ r.action = "invoices" => commits < MaxCommits
        /\ req' = r
        /\ resp' = out
        /\ invoice_start' = IF out.saved
                            THEN save_invoice_start(invoice_start, r.cat_id,
                                                    out.invoice_start)
                            ELSE invoice_start
        /\ commits' = IF out.saved THEN commits + 1 ELSE commits
        /\ snapshot' = [exists |-> FALSE, rows |-> <<>>, writer |-> 0, period |-> 0]
        /\ UNCHANGED <<ici_exists, page, calc>>

\* POST with a submit key '_register', '_invoices', '_summary' or '_credit'
Generate(r) ==
    LET out == post(r, snapshot, ici_exists)
    IN  /\ r.action = "invoices" => commits < MaxCommits
        /\ req' = r
        /\ resp' = out
        /\ invoice_start' = IF out.saved
                            THEN save_invoice_start(invoice_start, r.cat_id,
                                                    out.invoice_start)
                            ELSE invoice_start
        /\ commits' = IF out.saved THEN commits + 1 ELSE commits
        /\ UNCHANGED <<ici_exists, snapshot, page, calc>>

\* the response is returned and the view object of the request is dropped:
\* requests are handled one at a time, each to completion
Respond ==
    /\ req.kind # "none"
    /\ req' = NoRequest
    /\ resp' = [status |-> "none"]
    /\ UNCHANGED <<invoice_start, ici_exists, snapshot, page, commits, calc>>

\* the server is idle: no request is being handled
Idle == req.kind = "none"

Next ==
    \/ /\ Idle
       /\ \E s \in Sessions, period \in Periods, starts \in StartInputs :
              Fetch(s, period, starts)
    \/ /\ Idle
       /\ \E s \in Sessions : \E r \in GenInputs(s) : Generate(r)
    \/ Respond

Spec == Init /\ [][Next]_vars

----------------------------------------------------------------------------
(* The allocator on its own: one call of invoice_no_range for a starting   *)
(* code the period form accepts and a number of distinct accounts.         *)

\* at most this many distinct accounts in a category
MaxAccts == 3

AllocPrefixes == { <<"R", "T", "0", "1">>, <<"2", "0", "0", "1">> }

AllocSequences == {0, 1, 42, 5001, 9997, 9998, 9999}

AllocStarts ==
    { fmt(p, q) : p \in AllocPrefixes, q \in AllocSequences }

MainVarsIdle ==
    /\ Installed
    /\ ici_exists = TRUE

InitAlloc ==
    /\ MainVarsIdle
    /\ calc \in { [fn |-> "allocate", start |-> st, n |-> n, done |-> FALSE,
                   codes |-> <<>>] : st \in AllocStarts, n \in 0..MaxAccts }

Allocate ==
    /\ calc.fn = "allocate"
    /\ ~calc.done
    /\ InvoicePeriodForm_is_valid([c \in CatIds |-> calc.start])
    /\ SequenceIsInt(calc.start)
    /\ calc' = [calc EXCEPT !.done = TRUE,
                            !.codes = invoice_no_range(calc.start, calc.n)]
    /\ UNCHANGED <<invoice_start, ici_exists, snapshot, page, commits, req, resp>>

SpecAlloc == InitAlloc /\ [][Allocate]_vars

----------------------------------------------------------------------------
(* The adjustment ledger on its own: one adjustment formset submitted for  *)
(* account 11 of the first period, validated and folded by the register.   *)

\* at most this many forms in a submitted adjustment formset
MaxAdjForms == 2

\* the amounts typed into the amount field, in cents
AdjAmounts == {-300, 0, 500, 2000}

AdjForms ==
    {BlankForm, IncompleteForm} \cup
    { AdjForm(k, a) : k \in Kinds, a \in AdjAmounts }

AdjFormsets == UNION { [1..n -> AdjForms] : n \in 1..MaxAdjForms }

\* the frame of the first category in the first period, and the account the
\* formset is submitted for: the one with two job rows
AdjFrame ==
    Group(merged_frame([end_period |-> 1,
                        starts |-> [c \in CatIds |-> InitialStart(c)]]),
          "cat", 1)

AdjAcct == AcctGroups(AdjFrame)[2].acct

AdjRequest(fs) ==
    LET accts == drop_duplicates(Column(AdjFrame, "acct"))
    IN  [adj |-> [a \in {accts[i] : i \in 1..Len(accts)} |->
                     IF a = AdjAcct THEN fs ELSE <<BlankForm>>]]

InitAdj ==
    /\ MainVarsIdle
    /\ calc \in { [fn |-> "adjust", formset |-> fs, done |-> FALSE,
                   frame |-> [tag |-> "none", rows |-> <<>>], table |-> <<>>] :
                  fs \in AdjFormsets }

Adjust ==
    /\ calc.fn = "adjust"
    /\ ~calc.done
    /\ LET accts == drop_duplicates(Column(AdjFrame, "acct"))
           adjustments == adjustments_of(AdjRequest(calc.formset), accts)
           invoice_nos == invoice_nos_of(accts,
                              invoice_no_range(InitialStart(1), Len(accts)))
       IN  calc' = [calc EXCEPT
                      !.done = TRUE,
                      !.frame = validate_adjustments(calc.formset),
                      !.table = register_table(AdjFrame, adjustments, invoice_nos)]
    /\ UNCHANGED <<invoice_start, ici_exists, snapshot, page, commits, req, resp>>

SpecAdj == InitAdj /\ [][Adjust]_vars

----------------------------------------------------------------------------
(* One generation request on its own: a register or invoices request for   *)
(* the first category, posted by the session that fetched the first period *)
(* and with no other request in between.                                   *)

RegPeriod == CHOOSE p \in Periods : \A q \in Periods : p <= q

RegCat == CHOOSE c \in CatIds : \A d \in CatIds : c <= d

RegCleanData ==
    [end_period |-> RegPeriod, starts |-> [c \in CatIds |-> InitialStart(c)]]

\* the review page the fetch served
RegPage == get_billing_data(merged_frame(RegCleanData), RegCleanData)

\* the adjustment formsets of the request: any formset for the account with
\* two jobs, one Debit or nothing for the first account, one Credit or
\* nothing for the last
RegAdjInputs ==
    LET forms == RegPage.cats[RegCat]
    IN  { [a \in FormAccts(forms) |->
              IF a = AdjAcct THEN fs
              ELSE IF a = forms[1].acct THEN first
              ELSE last] :
          fs \in AdjFormsets,
          first \in {<<BlankForm>>, <<AdjForm("Debit", 500)>>},
          last \in {<<BlankForm>>, <<AdjForm("Credit", 2000)>>} }

\* the include formsets of the request: any choice of flags for the jobs
\* shown
RegIncludeInputs ==
    LET forms == RegPage.cats[RegCat]
        flagsets == UNION { [1..Len(forms[i].jobs) -> BOOLEAN] : i \in 1..Len(forms) }
    IN  { [a \in FormAccts(forms) |-> [valid |-> TRUE, flags |-> inc[a]]] :
            inc \in { f \in [FormAccts(forms) -> flagsets] :
                        \A a \in FormAccts(forms) :
                            Len(f[a]) = Len(FormOf(forms, a).jobs) } }

RegRequests ==
    LET forms == RegPage.cats[RegCat]
    IN  { GenRequest(1, RegCat, "register", inv, TRUE, inc, adj) :
            inv \in InvoiceNoInputs(forms), inc \in RegIncludeInputs,
            adj \in RegAdjInputs }
        \cup
        { GenRequest(1, RegCat, "invoices", inv, TRUE, inc, NoAdjustments(forms)) :
            inv \in InvoiceNoInputs(forms), inc \in RegIncludeInputs }

InitReg ==
    /\ invoice_start = [c \in CatIds |-> InitialStart(c)]
    /\ ici_exists = TRUE
    /\ snapshot = [exists |-> TRUE, rows |-> merged_frame(RegCleanData),
                   writer |-> 1, period |-> RegPeriod]
    /\ page = [s \in Sessions |-> IF s = 1 THEN RegPage ELSE NoPage]
    /\ commits = 0
    /\ req = NoRequest
    /\ resp = [status |-> "none"]
    /\ calc \in { [fn |-> "register", r |-> r, done |-> FALSE,
                    out |-> Failed("none", "none")] : r \in RegRequests }

Register ==
    /\ calc.fn = "register"
    /\ ~calc.done
    /\ LET out == post(calc.r, snapshot, ici_exists)
       IN  /\ calc' = [calc EXCEPT !.done = TRUE, !.out = out]
           /\ invoice_start' = IF out.saved
                               THEN save_invoice_start(invoice_start, calc.r.cat_id,
                                                       out.invoice_start)
                               ELSE invoice_start
           /\ commits' = IF out.saved THEN commits + 1 ELSE commits
    /\ UNCHANGED <<ici_exists, snapshot, page, req, resp>>

SpecReg == InitReg /\ [][Register]_vars

----------------------------------------------------------------------------
(* set_totals on its own: one call for a model instance (or None, when      *)
(* get_object found no row) and a frame of job rows, as the review and the  *)
(* generation actions pass them: rows of a fetched frame that a mask kept.  *)

TotalsFrames ==
    UNION { LET merged == merged_frame([end_period |-> p,
                              starts |-> [c \in CatIds |-> InitialStart(c)]])
            IN  { SelectSeq(merged, LAMBDA x : x.job_id \in J) :
                    J \in SUBSET {merged[i].job_id : i \in 1..Len(merged)} }
          : p \in Periods }

NoTotals == [sales |-> 0, tax |-> 0, total |-> 0]

InitTotals ==
    /\ MainVarsIdle
    /\ calc \in { [fn |-> "set_totals", has_obj |-> o, data_df |-> df,
                    done |-> FALSE, attached |-> FALSE, obj |-> NoTotals] :
                  o \in BOOLEAN, df \in TotalsFrames }

SetTotals ==
    /\ calc.fn = "set_totals"
    /\ ~calc.done
    /\ calc' = IF calc.has_obj
               THEN [calc EXCEPT !.done = TRUE, !.attached = TRUE,
                                 !.obj = set_totals(calc.data_df)]
               ELSE [calc EXCEPT !.done = TRUE]
    /\ UNCHANGED <<invoice_start, ici_exists, snapshot, page, commits, req, resp>>

SpecTotals == InitTotals /\ [][SetTotals]_vars

----------------------------------------------------------------------------
(* The aggregation on its own: the job query returns one set of rows in    *)
(* some order (it has no ORDER BY), and the frame is joined, derived and   *)
(* sorted. Two jobs of the set are for the same patient of the same        *)
(* account and shipped the same day.                                       *)

AggJobs ==
    { [job_id |-> 301, acct |-> 11, ship_date |-> 1, patient_name |-> 1, sales |-> 1000],
      [job_id |-> 302, acct |-> 11, ship_date |-> 1, patient_name |-> 1, sales |-> 2500],
      [job_id |-> 303, acct |-> 12, ship_date |-> 2, patient_name |-> 1, sales |-> 2000],
      [job_id |-> 304, acct |-> 13, ship_date |-> 1, patient_name |-> 2, sales |-> 800],
      [job_id |-> 305, acct |-> 99, ship_date |-> 1, patient_name |-> 3, sales |-> 700] }

\* the orders in which the query can return the rows
AggJobOrders ==
    LET n == Cardinality(AggJobs)
    IN  { q \in [1..n -> AggJobs] : \A i, j \in 1..n : i # j => q[i] # q[j] }

InitAgg ==
    /\ MainVarsIdle
    /\ calc \in { [fn |-> "aggregate", jobs |-> q, done |-> FALSE, rows |-> <<>>] :
                  q \in AggJobOrders }

Aggregate ==
    /\ calc.fn = "aggregate"
    /\ ~calc.done
    /\ calc' = [calc EXCEPT !.done = TRUE,
                            !.rows = sort_values(merge(calc.jobs, get_macola_df))]
    /\ UNCHANGED <<invoice_start, ici_exists, snapshot, page, commits, req, resp>>

SpecAgg == InitAgg /\ [][Aggregate]_vars

----------------------------------------------------------------------------
(* Properties.                                                             *)

Generating == req.kind = "generate"

\* the invoices action of the request being handled ran to its end
InvoicesDone == Generating /\ resp.status = "ok" /\ resp.action = "invoices"

NonBlank(codes) == SelectSeq(codes, LAMBDA x : Len(x) > 0)

\* the first four characters of a code, and the number after them
Prefix4(code) == SubSeq(code, 1, 4)

SeqNo(code) == ToInt(SubSeq(code, 5, Len(code)))

MaxOf(S) == CHOOSE x \in S : \A y \in S : y <= x

\* prefix + zero_pad4(largest submitted sequence number + 1)
ExpectedNextStart(codes) ==
    LET given == NonBlank(codes)
        top == MaxOf({SeqNo(given[i]) : i \in 1..Len(given)})
    IN  Prefix4(given[1]) \o PadLeft(IntToStr(top + 1), 4)

\* C1: after an invoices action that completed for a category, the persisted
\* invoice_start of that category is the 4-character prefix of the submitted
\* codes followed by the zero-padded (largest submitted sequence number + 1).
C1_StartAfterInvoices ==
    InvoicesDone => invoice_start[req.cat_id] = ExpectedNextStart(req.invoice_nos)

\* some form of a generation request is invalid: the invoice number formset,
\* the save path form, an include formset or an adjustment formset
HasInvalidForm(r) ==
    \/ ~InvoiceFormset_is_valid(r.invoice_nos)
    \/ ~r.savepath_ok
    \/ \E a \in DOMAIN r.include : ~r.include[a].valid
    \/ \E a \in DOMAIN r.adj : ~AdjustmentFormset_is_valid(r.adj[a])

\* C2: an invoices request with an invalid form leaves the category's
\* invoice_start as it was before the request.
C2_NoPartialCommit ==
    [][ (req'.kind = "generate" /\ req'.action = "invoices" /\ HasInvalidForm(req'))
        => invoice_start' = invoice_start ]_vars

\* C3: invoice_start of a category changes only in a step that handles an
\* invoices request for that very category and completes it; fetches and the
\* register, summary and credit actions change no invoice_start, and an
\* invoices action changes none of another category.
C3_OnlyInvoicesWritesStart ==
    [][ \A c \in CatIds :
            invoice_start'[c] # invoice_start[c]
            => /\ req'.kind = "generate"
               /\ req'.action = "invoices"
               /\ resp'.status = "ok"
               /\ req'.cat_id = c ]_vars

\* C3 witness: an invoices action for category 1 has saved a new value while
\* category 2 keeps its first value
C3_Witness ==
    /\ InvoicesDone
    /\ req.cat_id = 1
    /\ invoice_start[1] # InitialStart(1)
    /\ invoice_start[2] = InitialStart(2)

\* C4: every persisted invoice_start has exactly 8 characters, the last 4 of
\* them digits.
C4_StartWellFormed ==
    \A c \in CatIds :
        /\ Len(invoice_start[c]) = 8
        /\ IsAllDigits(TakeLast(invoice_start[c], 4))

PairwiseDistinct(seq) ==
    \A i, j \in 1..Len(seq) : i # j => seq[i] # seq[j]

\* C5: for an accepted starting code and n distinct accounts the allocator
\* proposes n pairwise distinct codes of exactly 8 characters that share the
\* starting code's 4-character prefix and whose sequence numbers go up by 1.
C5_AllocatedCodes ==
    (calc.fn = "allocate" /\ calc.done)
    => /\ Len(calc.codes) = calc.n
       /\ PairwiseDistinct(calc.codes)
       /\ \A i \in 1..Len(calc.codes) :
              /\ Len(calc.codes[i]) = 8
              /\ Prefix4(calc.codes[i]) = Prefix4(calc.start)
       /\ \A i \in 1..(Len(calc.codes) - 1) :
              SeqNo(calc.codes[i + 1]) = SeqNo(calc.codes[i]) + 1

\* the reference accounts of category c that have a job in the period, and
\* the place of one of them when they are listed by provider, then account
BilledAccts(period, c) ==
    { a \in MacolaAccts :
        /\ a.cat = c
        /\ \E i \in 1..Len(VistarJobs(period)) : VistarJobs(period)[i].acct = a.acct }

ProviderOf(a) == IF a.provider = NaN THEN 0 ELSE a.provider

Precedes(b, a) ==
    \/ ProviderOf(b) < ProviderOf(a)
    \/ ProviderOf(b) = ProviderOf(a) /\ b.acct < a.acct

Place(a, period, c) ==
    Cardinality({b \in BilledAccts(period, c) : Precedes(b, a)})

ReviewedFrame(s) ==
    merged_frame([end_period |-> page[s].period, starts |-> page[s].starts])

\* C7: a generation action of a session works on the snapshot that this
\* session's own latest fetch wrote (the data its page was built from), and
\* every row it processes is a row of that data, never of data another
\* session's fetch wrote.
C7_GenerationUsesOwnSnapshot ==
    (Generating /\ resp.status = "ok")
    => /\ snapshot.rows = ReviewedFrame(req.session)
       /\ \A i \in 1..Len(resp.billing_data) :
              \E j \in 1..Len(ReviewedFrame(req.session)) :
                  resp.billing_data[i] = ReviewedFrame(req.session)[j]

\* the rows of the cached category frame that the request's flags keep, when
\* the flags fit the frame
KeptRows(r) ==
    LET cat_df == Group(snapshot.rows, "cat", r.cat_id)
        accts == PairedAccts(cat_df, r.invoice_nos)
        mask == include_job_mask(r, accts)
    IN  IF Len(mask) = Len(cat_df) THEN MaskRows(cat_df, mask) ELSE <<>>

CodeOf(r, acct) ==
    LET cat_df == Group(snapshot.rows, "cat", r.cat_id)
        accts == PairedAccts(cat_df, r.invoice_nos)
    IN  IF \E i \in 1..Len(accts) : accts[i] = acct
        THEN r.invoice_nos[CHOOSE i \in 1..Len(accts) : accts[i] = acct]
        ELSE <<>>

\* the accounts with an included job and a non-blank invoice code
InvoicedAccts(r) ==
    { KeptRows(r)[i].acct : i \in 1..Len(KeptRows(r)) } \cap
    { a \in DOMAIN r.include : Len(CodeOf(r, a)) > 0 }

\* C8: an invoices action with valid forms and at least one included job of
\* an account with a non-blank code completes: one invoice per account with
\* an included job and a non-blank code, then the commit of invoice_start.
C8_InvoicesRunToCompletion ==
    ( /\ Generating
      /\ req.action = "invoices"
      /\ ~HasInvalidForm(req)
      /\ InvoicedAccts(req) # {} )
    => /\ resp.status = "ok"
       /\ {resp.docs[i].acct : i \in 1..Len(resp.docs)} = InvoicedAccts(req)
       /\ Len(resp.docs) = Cardinality(InvoicedAccts(req))
       /\ resp.saved

\* the forms of a formset that were filled in
Filled(fs) == SelectSeq(fs, LAMBDA f : f.changed)

\* the register row of the account the formset was submitted for
AdjRow ==
    calc.table[CHOOSE i \in 1..Len(calc.table) :
                   calc.table[i].row = "acct" /\ calc.table[i].id = AdjAcct]

AdjJobTotal == set_totals(Group(AdjFrame, "acct", AdjAcct)).total

SubmittedSum(fs) == SumSeq(Column(Filled(fs), "amount"))

\* C9: for a valid formset the normalized amount of a row is -1 times the
\* submitted amount for Credit and +1 times it for Debit; only Credit rows
\* of magnitudes M lower the account's total by sum(M), only Debit rows
\* raise it by sum(M).
C9_AdjustmentSign ==
    (calc.fn = "adjust" /\ calc.done /\ AdjustmentFormset_is_valid(calc.formset))
    => LET filled == Filled(calc.formset)
           rows == calc.frame.rows
       IN  /\ Len(rows) = Len(filled)
           /\ \A i \in 1..Len(filled) :
                  /\ filled[i].kind = "Credit" => rows[i].amount = (-1) * filled[i].amount
                  /\ filled[i].kind = "Debit" => rows[i].amount = filled[i].amount
           /\ (\A i \in 1..Len(filled) : filled[i].kind = "Credit")
              => AdjRow.total = AdjJobTotal - SubmittedSum(calc.formset) * RateOne
           /\ (\A i \in 1..Len(filled) : filled[i].kind = "Debit")
              => AdjRow.total = AdjJobTotal + SubmittedSum(calc.formset) * RateOne

\* C9 witness: two Credit rows of 20.00 and 5.00 were folded into the total
C9_Witness ==
    /\ calc.fn = "adjust"
    /\ calc.done
    /\ calc.formset = <<AdjForm("Credit", 2000), AdjForm("Credit", 500)>>
    /\ AdjRow.adjs = -2500

\* C10: every row of a valid formset carries a positive amount, so a Credit
\* row is normalized to an amount <= 0 and a Debit row to an amount >= 0.
C10_PositiveMagnitude ==
    (calc.fn = "adjust" /\ calc.done /\ AdjustmentFormset_is_valid(calc.formset))
    => LET filled == Filled(calc.formset)
           rows == calc.frame.rows
       IN  \A i \in 1..Len(filled) :
               /\ filled[i].amount > 0
               /\ filled[i].kind = "Credit" => rows[i].amount <= 0
               /\ filled[i].kind = "Debit" => rows[i].amount >= 0

\* the request of the one-request specification was handled
RunDone == calc.fn = "register" /\ calc.done

RegisterDone == RunDone /\ calc.r.action = "register"

\* the sum of the signed amounts of the filled forms of a formset, in cents
SignedSum(fs) ==
    SumSeq([i \in 1..Len(fs) |->
               IF ~fs[i].changed THEN 0
               ELSE IF fs[i].kind = "Credit" THEN 0 - fs[i].amount
               ELSE fs[i].amount])

RowsOfAcct(rows, a) == SelectSeq(rows, LAMBDA x : x.acct = a)

\* sales + tax over job rows, in 1/1000000 dollar
JobTotal(rows) ==
    SumSeq([i \in 1..Len(rows) |-> rows[i].sales * RateOne + rows[i].tax])

\* the accounts with a job row in the filtered frame and a non-blank code
IncludedAccts(r, rows) ==
    { a \in {rows[i].acct : i \in 1..Len(rows)} : Len(CodeOf(r, a)) > 0 }

TableRows(table, kind) == SelectSeq(table, LAMBDA x : x.row = kind)

\* the provider the reference data gives an account (0 for none)
ProviderOfAcct(a) ==
    ProviderOf(CHOOSE m \in MacolaAccts : m.acct = a)

\* C11: in the register of a request with valid forms, every included
\* account has one row whose adjustment figure is the sum of its signed
\* adjustments (0 without adjustment rows, and no error) and whose total is
\* its job total plus that sum; a provider row's adjustment figure is the sum
\* of the adjustment sums of its included accounts; the totals row is the
\* sum of the adjusted totals of all included accounts.
C11_RegisterFolding ==
    (RegisterDone /\ ~HasInvalidForm(calc.r))
    => /\ calc.out.status = "ok"
       /\ LET rows == calc.out.billing_data
              table == calc.out.table
              accts == TableRows(table, "acct")
              provs == TableRows(table, "provider")
              totals == TableRows(table, "total")
          IN  /\ {accts[i].id : i \in 1..Len(accts)} = IncludedAccts(calc.r, rows)
              /\ Len(accts) = Cardinality(IncludedAccts(calc.r, rows))
              /\ \A i \in 1..Len(accts) :
                     /\ accts[i].adjs = SignedSum(calc.r.adj[accts[i].id])
                     /\ accts[i].total =
                            JobTotal(RowsOfAcct(rows, accts[i].id))
                            + SignedSum(calc.r.adj[accts[i].id]) * RateOne
              /\ \A i \in 1..Len(provs) :
                     provs[i].adjs =
                         SumSeq(Column(SelectSeq(accts,
                                    LAMBDA x : ProviderOfAcct(x.id) = provs[i].id),
                                "adjs"))
              /\ Len(totals) = 1
              /\ totals[1].total = SumSeq(Column(accts, "total"))

\* C11 witness: a register with all three accounts included, a Debit of 5.00
\* on the first, two adjustments on the second, none on the third
C11_Witness ==
    /\ RegisterDone
    /\ calc.out.status = "ok"
    /\ Len(TableRows(calc.out.table, "acct")) = 3
    /\ calc.r.adj[AdjAcct] = <<AdjForm("Credit", 2000), AdjForm("Debit", 500)>>
    /\ calc.r.adj[13] = <<BlankForm>>
    /\ TableRows(calc.out.table, "provider")[1].adjs = -1500
    /\ TableRows(calc.out.table, "total")[1].adjs = -1000

\* C12: the totals attached to an entity for a frame of job rows have
\* sales = the sum of sales over the rows, tax = the sum of sales * tax_rate
\* over the rows, and total = sales + tax (amounts in 1/1000000 dollar).
C12_DerivedTotals ==
    (calc.fn = "set_totals" /\ calc.done /\ calc.attached)
    => LET rows == calc.data_df
       IN  /\ calc.obj.sales = SumSeq([i \in 1..Len(rows) |-> rows[i].sales]) * RateOne
           /\ calc.obj.tax =
                  SumSeq([i \in 1..Len(rows) |-> rows[i].sales * rows[i].tax_rate])
           /\ calc.obj.total = calc.obj.sales + calc.obj.tax

\* C12 witness: totals attached for the two jobs of a taxed account:
\* 150.00 sales, 12.375 tax
C12_Witness ==
    /\ calc.fn = "set_totals"
    /\ calc.done
    /\ calc.attached
    /\ Len(calc.data_df) = 2
    /\ calc.obj.sales = 15000 * RateOne
    /\ calc.obj.tax = 12375000
    /\ calc.obj.total = 162375000

\* the flag the request carries for a job shown on the review page
FlagOfJob(r, forms, job) ==
    LET f == forms[CHOOSE i \in 1..Len(forms) :
                       \E k \in 1..Len(forms[i].jobs) : forms[i].jobs[k] = job]
        k == CHOOSE k \in 1..Len(f.jobs) : f.jobs[k] = job
    IN  r.include[f.acct].flags[k]

\* the rows of the cached category frame whose job is flagged, in order
FlaggedRows(r) ==
    SelectSeq(Group(snapshot.rows, "cat", r.cat_id),
              LAMBDA x : FlagOfJob(r, RegPage.cats[r.cat_id], x.job_id))

AllFlagged(r) ==
    \A a \in DOMAIN r.include :
        \A k \in 1..Len(r.include[a].flags) : r.include[a].flags[k]

\* C13: the frame handed to the action holds exactly the rows of the
\* category whose flag is true, in their order; the register's account rows
\* and totals row sum over those rows only; with every flag true the frame
\* is the whole category frame.
C13_InclusionFilter ==
    (RegisterDone /\ ~HasInvalidForm(calc.r))
    => LET rows == calc.out.billing_data
           kept == FlaggedRows(calc.r)
           accts == TableRows(calc.out.table, "acct")
           totals == TableRows(calc.out.table, "total")
           coded == SelectSeq(kept, LAMBDA x : Len(CodeOf(calc.r, x.acct)) > 0)
       IN  /\ calc.out.status = "ok"
           /\ rows = kept
           /\ AllFlagged(calc.r) => rows = Group(snapshot.rows, "cat", calc.r.cat_id)
           /\ \A i \in 1..Len(accts) :
                  LET mine == RowsOfAcct(kept, accts[i].id)
                  IN  /\ Len(mine) > 0
                      /\ accts[i].sales = SumSeq(Column(mine, "sales")) * RateOne
                      /\ accts[i].tax = SumSeq(Column(mine, "tax"))
                      /\ accts[i].total - accts[i].adjs * RateOne = JobTotal(mine)
           /\ totals[1].sales = SumSeq(Column(coded, "sales")) * RateOne
           /\ totals[1].tax = SumSeq(Column(coded, "tax"))

\* C13 witness: flags [true, false] on the account with two jobs leave the
\* sales, tax and total of its first job (100.00, 8.25, 108.25)
C13_Witness ==
    /\ RegisterDone
    /\ calc.out.status = "ok"
    /\ calc.r.include[AdjAcct].flags = <<TRUE, FALSE>>
    /\ calc.r.adj[AdjAcct] = <<BlankForm>>
    /\ \E i \in 1..Len(calc.out.table) :
           /\ calc.out.table[i].row = "acct"
           /\ calc.out.table[i].id = AdjAcct
           /\ calc.out.table[i].sales = 10000 * RateOne
           /\ calc.out.table[i].tax = 8250000
           /\ calc.out.table[i].total = 108250000

\* the accounts of the request whose jobs are all unticked
ExcludedAccts(r) ==
    { a \in DOMAIN r.include :
        \A k \in 1..Len(r.include[a].flags) : ~r.include[a].flags[k] }

\* the code the request carries for an account of the page it was built from
SubmittedCode(r, a) ==
    LET forms == page[r.session].cats[r.cat_id]
    IN  r.invoice_nos[CHOOSE i \in 1..Len(forms) : forms[i].acct = a]

\* the digits of a code (the codes submitted here hold one run of digits)
DigitRun(code) == SelectSeq(code, IsDigit)

\* the successor of the largest of the given digit runs: its leading part
\* kept, its last four digits read as a number, plus one, padded to four
SuccessorOfLargest(runs) ==
    LET top == CHOOSE x \in runs : \A y \in runs : ToInt(y) <= ToInt(x)
    IN  SubSeq(top, 1, Len(top) - 4)
        \o PadLeft(IntToStr(ToInt(SubSeq(top, Len(top) - 3, Len(top))) + 1), 4)

\* C14: an account whose jobs are all excluded gets no register row and no
\* invoice, yet it was proposed a code like every account of the category
\* and, unless its code was blanked, that code counts when the next
\* invoice_start is computed at commit: the saved value is the successor of
\* the largest non-blank submitted code, whatever the flags.
C14_ExcludedAccountKeepsSlot ==
    (RunDone /\ calc.out.status = "ok")
    => LET r == calc.r
           out == calc.out
           forms == page[r.session].cats[r.cat_id]
           coded == { a \in DOMAIN r.include : Len(SubmittedCode(r, a)) > 0 }
       IN  /\ Len(forms) = Cardinality(BilledAccts(page[r.session].period, r.cat_id))
           /\ \A a \in ExcludedAccts(r) :
                  /\ \A i \in 1..Len(out.table) :
                         out.table[i].row = "acct" => out.table[i].id # a
                  /\ \A i \in 1..Len(out.docs) : out.docs[i].acct # a
           /\ out.action = "invoices"
              => /\ out.saved
                 /\ coded # {}
                 /\ invoice_start[r.cat_id] =
                        SuccessorOfLargest({DigitRun(SubmittedCode(r, a)) : a \in coded})

\* C14 witness: every job of the first category is excluded, the first
\* account's code is blanked, and the commit counts the codes of the other
\* two accounts: 20015003 is followed by 20015004
C14_Witness ==
    /\ RunDone
    /\ calc.out.status = "ok"
    /\ calc.r.action = "invoices"
    /\ ExcludedAccts(calc.r) = DOMAIN calc.r.include
    /\ Len(calc.r.invoice_nos) = 3
    /\ calc.r.invoice_nos[1] = <<>>
    /\ calc.r.invoice_nos[3] = <<"2", "0", "0", "1", "5", "0", "0", "3">>
    /\ invoice_start[1] = <<"2", "0", "0", "1", "5", "0", "0", "4">>
    /\ calc.out.docs = <<>>

\* the jobs of a period whose account number is in the reference set
KnownJobs(period) ==
    { VistarJobs(period)[i].job_id : i \in
        { i \in 1..Len(VistarJobs(period)) :
            \E a \in MacolaAccts : a.acct = VistarJobs(period)[i].acct } }

C16_MissingIciBlocksFetch ==
    [][ (req'.kind = "fetch" /\ ~ici_exists)
        => /\ resp'.status = "invalid"
           /\ resp'.billing_data = <<>>
           /\ snapshot' = snapshot
           /\ page' = page
           /\ invoice_start' = invoice_start ]_vars

\* C16 witness: a well-formed period form was rejected for the missing
\* account, and there is still no snapshot
C16_Witness ==
    /\ req.kind = "fetch"
    /\ ~ici_exists
    /\ InvoicePeriodForm_is_valid(req.starts)
    /\ resp.status = "invalid"
    /\ ~snapshot.exists

\* C17: a generation request that carries an invalid form is answered with
\* the page and its validation errors: it does not end in an unhandled
\* error and the action is not carried out.
C17_InvalidFormIsReported ==
    (Generating /\ HasInvalidForm(req)) => resp.status = "invalid"

\* no submitted code holds a digit
NoSequenceNumber(codes) == \A i \in 1..Len(codes) : DigitRun(codes[i]) = <<>>

\* C18: an invoices action saves invoice_start at most once, and only as the
\* last step of an action that built its documents and answered with them;
\* an action that failed, or whose codes hold no sequence number, leaves
\* every invoice_start as it was.
C18_CommitOnceAfterBuilding ==
    [][ (req'.kind = "generate" /\ req'.action = "invoices")
        => /\ commits' \in {commits, commits + 1}
           /\ commits' = commits => invoice_start' = invoice_start
           /\ commits' = commits + 1
              => /\ resp'.status = "ok"
                 /\ resp'.saved
                 /\ invoice_start' =
                        [invoice_start EXCEPT ![req'.cat_id] = resp'.invoice_start]
           /\ resp'.status # "ok" => invoice_start' = invoice_start
           /\ NoSequenceNumber(req'.invoice_nos)
              => /\ resp'.status = "error"
                 /\ invoice_start' = invoice_start ]_vars

\* C18 witness: one invoices action has run to its end and saved the value
\* it answered with, once
C18_Witness ==
    /\ InvoicesDone
    /\ resp.saved
    /\ commits = 1
    /\ invoice_start[req.cat_id] = resp.invoice_start
    /\ invoice_start[req.cat_id] # InitialStart(req.cat_id)

\* no generation request a session can post from its page is carried out
NoGenerationServed(s) ==
    \A r \in GenInputs(s) : post(r, snapshot, ici_exists).status # "ok"

\* C19: when a period submission is rejected before fetching, the run is
\* back at the period form and the earlier snapshot is gone: no generation
\* request of that session is carried out on it.
C19_SnapshotDiscardedOnReturn ==
    [][ (req'.kind = "fetch" /\ resp'.status = "invalid")
        => NoGenerationServed(req.session)' ]_vars

\* C20: the snapshot changes only in a step that handles a period request;
\* register, invoices, summary and credit requests leave it as it is, so
\* consecutive generation requests read the same rows.
C20_OnlyFetchWritesSnapshot ==
    [][ /\ snapshot' # snapshot => req'.kind = "fetch"
        /\ req'.kind = "generate" => snapshot' = snapshot ]_vars

\* C20 witness: after an invoices action saved a new invoice_start, a further
\* generation request of the same session read the rows its fetch had written
C20_Witness ==
    /\ Generating
    /\ resp.status = "ok"
    /\ commits > 0
    /\ ~resp.saved
    /\ snapshot.exists
    /\ snapshot.rows = ReviewedFrame(req.session)
    /\ snapshot.writer = req.session

\* every provider of the rows has a BillToProvider row
ProvidersOnFile(rows) ==
    \A i \in 1..Len(rows) : rows[i].provider \in ProviderIds

\* C21: a summary or credit action reads the invoice code and the adjustment
\* rows of an account under that account's number, which both mappings hold
\* for every account of the filtered frame: with valid forms, rows of
\* providers on file and the 'ici' account present, the lookup succeeds and
\* the action is carried out.
C21_MappingsReadByAccount ==
    ( /\ Generating
      /\ req.action \in {"summary", "credit"}
      /\ ~HasInvalidForm(req)
      /\ ici_exists
      /\ snapshot.rows = ReviewedFrame(req.session)
      /\ KeptRows(req) # <<>>
      /\ ProvidersOnFile(KeptRows(req))
      /\ \A i \in 1..Len(KeptRows(req)) :
             KeptRows(req)[i].acct \in DOMAIN req.include
                                       \cap DOMAIN req.adj )
    => resp.status = "ok"

\* the job rows in the order of their job ids
JobsById(jobs) ==
    LET ids == SortedSeq({j.job_id : j \in jobs})
    IN  [i \in 1..Len(ids) |-> CHOOSE j \in jobs : j.job_id = ids[i]]

\* C22: whatever order the query returns a set of job rows in, the
\* aggregated frame is the same: the same rows in the same order, ascending
\* by category, provider, account, ship date and patient name, also for
\* jobs equal in all five, and with it the same groups and totals.
C22_AggregationIgnoresQueryOrder ==
    (calc.fn = "aggregate" /\ calc.done)
    => LET ref == sort_values(merge(JobsById(AggJobs), get_macola_df))
       IN  /\ \A i \in 1..(Len(calc.rows) - 1) :
                  ~KeyLess(SortKey(calc.rows[i + 1]), SortKey(calc.rows[i]))
           /\ set_totals(calc.rows) = set_totals(ref)
           /\ Column(AcctGroups(calc.rows), "acct") = Column(AcctGroups(ref), "acct")
           /\ Column(AcctGroups(calc.rows), "provider")
                  = Column(AcctGroups(ref), "provider")
           /\ calc.rows = ref

\* the snapshot is the one the session of the request reviewed
OwnSnapshot(r) ==
    /\ snapshot.exists
    /\ snapshot.writer = r.session
    /\ snapshot.rows = ReviewedFrame(r.session)

\* C23: when the snapshot is the one the session reviewed, generation pairs
\* the code in position i with the account shown in position i at review:
\* the accounts in order of first appearance in the category's rows are the
\* accounts in review order, and a register row carries the code submitted
\* in its account's position.
C23_CodesPairedWithReviewedAccounts ==
    (Generating /\ OwnSnapshot(req) /\ InvoiceFormset_is_valid(req.invoice_nos))
    => LET forms == page[req.session].cats[req.cat_id]
           cat_df == Group(snapshot.rows, "cat", req.cat_id)
       IN  /\ PairedAccts(cat_df, req.invoice_nos) = Column(forms, "acct")
           /\ \A a \in DOMAIN req.include :
                  CodeOf(req, a) = SubmittedCode(req, a)
           /\ (resp.status = "ok" /\ resp.action = "register")
              => \A i \in 1..Len(resp.table) :
                     resp.table[i].row = "acct"
                     => resp.table[i].invoice_no
                            = SubmittedCode(req, resp.table[i].id)

\* C23 witness: a register of the first category lists the provider-less
\* account 12 with the first code and account 11 with the second
C23_Witness ==
    /\ Generating
    /\ OwnSnapshot(req)
    /\ resp.status = "ok"
    /\ resp.action = "register"
    /\ req.cat_id = 1
    /\ \E i, j \in 1..Len(resp.table) :
           /\ resp.table[i].row = "acct" /\ resp.table[i].id = 12
           /\ resp.table[i].invoice_no = req.invoice_nos[1]
           /\ resp.table[j].row = "acct" /\ resp.table[j].id = 11
           /\ resp.table[j].invoice_no = req.invoice_nos[2]
           /\ req.invoice_nos[1] # req.invoice_nos[2]

JobShown(forms, job) ==
    \E i \in 1..Len(forms) : \E k \in 1..Len(forms[i].jobs) : forms[i].jobs[k] = job

\* C24: when as many invoice number forms are submitted as the category has
\* distinct accounts in the snapshot, the mask built from the accounts'
\* flags is as long as the category's rows, and its k-th entry is the flag
\* the operator set next to the job of the k-th row.
C24_MaskAlignedWithRows ==
    LET cat_df == Group(snapshot.rows, "cat", req.cat_id)
        forms == page[req.session].cats[req.cat_id]
        accts == PairedAccts(cat_df, req.invoice_nos)
        mask == include_job_mask(req, accts)
    IN  ( /\ Generating
          /\ snapshot.exists
          /\ InvoiceFormset_is_valid(req.invoice_nos)
          /\ \A a \in DOMAIN req.include : req.include[a].valid
          /\ Len(req.invoice_nos) = Len(drop_duplicates(Column(cat_df, "acct")))
          /\ \A i \in 1..Len(accts) : accts[i] \in DOMAIN req.include )
        => /\ Len(mask) = Len(cat_df)
           /\ \A k \in 1..Len(cat_df) :
                  /\ JobShown(forms, cat_df[k].job_id)
                  /\ mask[k] = FlagOfJob(req, forms, cat_df[k].job_id)

\* the sequence number a run reads from a code: its last four characters
SequenceOf(code) == ToInt(TakeLast(code, SequenceWidth))

\* C25: after an invoices action that committed, the sequence number of the
\* saved invoice_start is strictly greater than the sequence number of every
\* code submitted for the category in that action.
C25_StartPastSubmittedCodes ==
    (InvoicesDone /\ resp.saved)
    => \A i \in 1..Len(req.invoice_nos) :
           Len(req.invoice_nos[i]) > 0
           => SequenceOf(invoice_start[req.cat_id]) > SequenceOf(req.invoice_nos[i])

----------------------------------------------------------------------------
(* Two operator sessions that fetch with the start fields left as proposed *)
(* and submit the invoices action with the proposed codes. calc keeps, per *)
(* session and category, the codes of the invoices actions that were       *)
(* answered after their commit.                                            *)

NoneIssued == [s \in Sessions |-> [c \in CatIds |-> {}]]

InitRace ==
    /\ MainVarsIdle
    /\ calc = [fn |-> "issued", by |-> NoneIssued]

\* the start fields as the period form shows them: the persisted values
RaceFetch(s, period) == Fetch(s, period, invoice_start)

\* the invoices requests of session s that accept the proposed codes
RaceInputs(s) ==
    UNION { LET forms == page[s].cats[c] IN
            { GenRequest(s, c, "invoices", Column(forms, "invoice_no"), TRUE,
                         inc, NoAdjustments(forms)) : inc \in IncludeInputs(forms) }
          : c \in {c \in CatIds : Len(page[s].cats[c]) > 0} }

\* the codes a completed invoices action counted at its commit
IssuedCodes(r) == {r.invoice_nos[i] : i \in 1..Len(r.invoice_nos)} \ {<<>>}

\* the response is returned; the codes of an invoices action that ran to
\* its commit are with the operator from now on
RaceRespond ==
    /\ req.kind # "none"
    /\ req' = NoRequest
    /\ resp' = [status |-> "none"]
    /\ calc' = IF InvoicesDone /\ resp.saved
               THEN [calc EXCEPT !.by[req.session][req.cat_id] =
                                     @ \cup IssuedCodes(req)]
               ELSE calc
    /\ UNCHANGED <<invoice_start, ici_exists, snapshot, page, commits>>

NextRace ==
    \/ /\ Idle
       /\ \E s \in Sessions, period \in Periods : RaceFetch(s, period)
    \/ /\ Idle
       /\ \E s \in Sessions : \E r \in RaceInputs(s) : Generate(r)
    \/ RaceRespond

SpecRace == InitRace /\ [][NextRace]_vars

\* C26: for a category, the codes issued by the invoices actions of one
\* session and those issued by the invoices actions of the other session
\* have no code in common.
C26_NoCodeIssuedTwice ==
    calc.fn = "issued"
    => \A c \in CatIds, s, t \in Sessions :
           s # t => calc.by[s][c] \cap calc.by[t][c] = {}

\* invoice_start once the request r is handled in the current state
StartAfter(r) ==
    LET out == post(r, snapshot, ici_exists)
    IN  IF out.saved
        THEN save_invoice_start(invoice_start, r.cat_id, out.invoice_start)
        ELSE invoice_start

\* C27: when an invoices action has committed, submitting the same form
\* (same codes, flags and adjustments) again right away commits the same
\* value: invoice_start after the second action is its value after the first.
C27_CommitIdempotent ==
    (InvoicesDone /\ resp.saved)
    => /\ post(req, snapshot, ici_exists) = resp
       /\ StartAfter(req) = invoice_start

\* the second of two commits to one category, the form still submittable
C27_Witness ==
    /\ InvoicesDone
    /\ resp.saved
    /\ commits = 2
    /\ \A c \in CatIds \ {req.cat_id} : invoice_start[c] = InitialStart(c)
    /\ req \in GenInputs(req.session)
    /\ post(req, snapshot, ici_exists).saved
    /\ invoice_start[req.cat_id] # InitialStart(req.cat_id)
    /\ StartAfter(req) = invoice_start

----------------------------------------------------------------------------
(* The accounts register and invoices take as included, for one form.      *)

\* the texts of an invoice_no field: blank, digits only, letters and
\* digits, letters only
CodeTexts ==
    { <<>>,
      <<"2", "0", "0", "1", "5", "0", "0", "1">>,
      <<"R", "T", "0", "1", "5", "0", "0", "1">>,
      <<"R", "T", "A", "B", "C", "D", "E", "F">> }

\* the submitted forms: any text per account, any choice of flags
InclRequests ==
    LET forms == RegPage.cats[RegCat]
    IN  { GenRequest(1, RegCat, "register", inv, TRUE, inc, NoAdjustments(forms)) :
            inv \in [1..Len(forms) -> CodeTexts], inc \in RegIncludeInputs }

InitIncl ==
    /\ invoice_start = [c \in CatIds |-> InitialStart(c)]
    /\ ici_exists = TRUE
    /\ snapshot = [exists |-> TRUE, rows |-> merged_frame(RegCleanData),
                   writer |-> 1, period |-> RegPeriod]
    /\ page = [s \in Sessions |-> IF s = 1 THEN RegPage ELSE NoPage]
    /\ commits = 0
    /\ req = NoRequest
    /\ resp = [status |-> "none"]
    /\ calc \in { [fn |-> "included", r |-> r, done |-> FALSE,
                    register |-> {}, invoices |-> {}] : r \in InclRequests }

\* the same submitted data handed to register (rows of the table) and to
\* the loop of invoices (documents written)
Included ==
    /\ calc.fn = "included"
    /\ ~calc.done
    /\ InvoiceFormset_is_valid(calc.r.invoice_nos)
    /\ LET r == calc.r
           cat_df == Group(snapshot.rows, "cat", r.cat_id)
           accts == PairedAccts(cat_df, r.invoice_nos)
           billing_data == MaskRows(cat_df, include_job_mask(r, accts))
           adjustments == adjustments_of(r, accts)
           invoice_nos == invoice_nos_of(accts, r.invoice_nos)
           table == register_table(billing_data, adjustments, invoice_nos)
           docs == invoice_docs(billing_data, adjustments, invoice_nos)
       IN  calc' = [calc EXCEPT
                       !.done = TRUE,
                       !.register = {table[i].id : i \in
                                       {k \in 1..Len(table) : table[k].row = "acct"}},
                       !.invoices = {docs[i].acct : i \in 1..Len(docs)}]
    /\ UNCHANGED <<invoice_start, ici_exists, snapshot, page, commits, req, resp>>

SpecIncl == InitIncl /\ [][Included]_vars

\* C28: for the same submitted form data an account gets a register row if
\* and only if it gets an invoice, whatever the text of its invoice code.
C28_SameAccountsIncluded ==
    (calc.fn = "included" /\ calc.done) => calc.register = calc.invoices

----------------------------------------------------------------------------
(* form_valid, lines 290-294: the end date of the invoice period.          *)

\* the years the selected dates are drawn from
LastYear == 2024

FirstYear == LastYear - 1

\* datetime.date: year, month, day of the proleptic Gregorian calendar
IsLeap(y) == (y % 4 = 0) /\ ((y % 100 # 0) \/ (y % 400 = 0))

DaysInMonth(y, m) ==
    IF m = 2 THEN (IF IsLeap(y) THEN 29 ELSE 28)
    ELSE IF m \in {4, 6, 9, 11} THEN 30 ELSE 31

Date(y, m, d) == [year |-> y, month |-> m, day |-> d]

DatesOf(years) ==
    { Date(y, m, d) : y \in years, m \in 1..12, d \in 1..31 } \ 
    { x \in { Date(y, m, d) : y \in years, m \in 1..12, d \in 29..31 } :
        x.day > DaysInMonth(x.year, x.month) }

RECURSIVE DaysBeforeMonth(_, _)
DaysBeforeMonth(y, m) ==
    IF m = 1 THEN 0 ELSE DaysBeforeMonth(y, m - 1) + DaysInMonth(y, m - 1)

\* date.toordinal(): 1 for 0001-01-01
toordinal(x) ==
    LET y == x.year - 1
    IN  y * 365 + (y \div 4) - (y \div 100) + (y \div 400)
        + DaysBeforeMonth(x.year, x.month) + x.day

\* date.fromordinal(n), for the years at hand and the year before them
fromordinal(n) ==
    CHOOSE x \in DatesOf((FirstYear - 1)..LastYear) : toordinal(x) = n

\* date.weekday(): 0 for Monday .. 6 for Sunday
weekday(x) == (toordinal(x) + 6) % 7

\* date - timedelta(days=k)
minus_days(x, k) == fromordinal(toordinal(x) - k)

\* date.strftime('%Y-%m')
strftime_Ym(x) ==
    PadLeft(IntToStr(x.year), 4) \o <<"-">> \o PadLeft(IntToStr(x.month), 2)

\* (variant for C29: the days taken off are counted from Saturday)
end_of_period_FromSaturday(d) ==
    LET day_of_week == weekday(d)
    IN  IF day_of_week \in {5, 6} THEN minus_days(d, day_of_week - 5) ELSE d

\* form_valid, line 293: end
end_of_period(d) ==
    LET day_of_week == weekday(d)
    IN  IF day_of_week \in {5, 6} THEN minus_days(d, day_of_week - 4) ELSE d

InitEnd ==
    /\ MainVarsIdle
    /\ calc \in { [fn |-> "end", d |-> d, done |-> FALSE, end |-> d,
                   end_period |-> <<>>] : d \in DatesOf(FirstYear..LastYear) }

\* cd.update(end=end, end_period=end.strftime('%Y-%m'))
FormValidEnd ==
    /\ calc.fn = "end"
    /\ ~calc.done
    /\ LET end == end_of_period(calc.d)
       IN  calc' = [calc EXCEPT !.done = TRUE, !.end = end,
                                !.end_period = strftime_Ym(end)]
    /\ UNCHANGED <<invoice_start, ici_exists, snapshot, page, commits, req, resp>>

SpecEnd == InitEnd /\ [][FormValidEnd]_vars

EndComputed == calc.fn = "end" /\ calc.done

\* the year and the month a 'yyyy-mm' text names
YearOfText(t) == ToInt(SubSeq(t, 1, 4))

MonthOfText(t) == ToInt(SubSeq(t, 6, 7))

\* C29: the end date is the selected date d on Monday to Friday and the
\* Friday before d on Saturday and Sunday; it is never a weekend day, is at
\* most 2 days before d, and the queried period is its year and month.
C29_EndIsWeekday ==
    EndComputed
    => LET d == calc.d
           e == calc.end
           back == toordinal(d) - toordinal(e)
       IN  /\ weekday(d) \in 0..4 => e = d
           /\ weekday(d) \in {5, 6} => (weekday(e) = 4 /\ back = weekday(d) - 4)
           /\ weekday(e) \in 0..4
           /\ back \in 0..2
           /\ Len(calc.end_period) = 7
           /\ calc.end_period[5] = "-"
           /\ YearOfText(calc.end_period) = e.year
           /\ MonthOfText(calc.end_period) = e.month

\* a Sunday that opens a month: the end date is the Friday of the month
\* before, and that month is queried
C29_Witness ==
    /\ EndComputed
    /\ weekday(calc.d) = 6
    /\ calc.d.day = 1
    /\ calc.end.month # calc.d.month
    /\ weekday(calc.end) = 4
    /\ MonthOfText(calc.end_period) = calc.end.month

====
